---- MODULE Spec2Model ----
(***************************************************************************)
(* Board constructors of pins (pins/constructors.py) and the adaptor       *)
(* contract exercised by pins/tests/test_adaptors.py.                      *)
(*                                                                         *)
(* Python values are written as strings: None is "None", True is "True",   *)
(* the integer 0 is "0".  A dict is a set of <<key, value>> pairs.         *)
(* Callers are independent users of the library; each holds at most one    *)
(* board at a time.                                                        *)
(***************************************************************************)
EXTENDS Integers, Sequences, FiniteSets, TLC

VARIABLES
    obj,        \* obj[c]: the board caller c holds, or NoBoard
    call,       \* call[c]: the constructor call that produced obj[c] or raised
    deparsed,   \* deparsed[c]: what board_deparse(obj[c]) returned or raised
    handles,    \* tempfile.TemporaryDirectory objects whose finalizer is alive
    fs_dirs,    \* temporary directories that exist on disk
    adaptor,    \* the adaptor wrapping the current payload
    files,      \* files[fmt]: payload last written in format fmt, or "absent"
    write_exc,  \* what the last write_<fmt> call raised
    preview     \* what the last data_preview returned

vars == <<obj, call, deparsed, handles, fs_dirs, adaptor, files, write_exc, preview>>

board_vars == <<obj, call, deparsed, handles, fs_dirs>>
adaptor_vars == <<adaptor, files, write_exc, preview>>

\* ------------------------------------------------------------------ bounds

MaxTempDirs == 2

\* ------------------------------------------------------------------ inputs

\* two callers: every property below relates at most two boards
Callers == {"c1", "c2"}

Paths == {"a/b/c", "x"}

Urls == {"http://example.com", "http://other.org"}

ApiKeys == {"xxx", "yyy"}

AllowPickleRead == {"None", "True", "False"}

CacheArgs == {"DEFAULT", "None", "custom"}

Protocols == {"file", "s3", "rsc"}

TmpNames == {"/tmp/tmp" \o ToString(i) : i \in 1..MaxTempDirs}

PinPaths == {<<"df_csv", "df_csv/20220214T163720Z-9bfad/">>}

EmptyOpts == {}

RscOptions == {{<<"server_url", u>>, <<"api_key", k>>} : u \in Urls, k \in ApiKeys}

\* dict lookup d[k]
Get(d, k) == (CHOOSE p \in d : p[1] = k)[2]

\* ------------------------------------------------------- collaborators

\* pins.config.get_cache_dir / get_data_dir: plain configuration values
get_cache_dir == "cache_root"

get_data_dir == "data_dir"

os_path_join(a, b) == a \o "/" \o b

\* pins.cache.hash_name: a deterministic, fixed-length, collision-resistant
\* digest of the identity string
HashInputs == Paths \cup Urls

Digests == {"d" \o ToString(i) : i \in 1..Cardinality(HashInputs)}

HashTable ==
    CHOOSE f \in [HashInputs -> Digests] :
        \A x, y \in HashInputs : x # y => f[x] # f[y]

hash_name(s) == HashTable[s]

\* pins.cache.prefix_cache(fs, board_base_path): <protocol>_<hash of identity>
prefix_cache(proto_name, board_base_path) ==
    proto_name \o "_" \o hash_name(board_base_path)

\* ------------------------------------------------------------ filesystems

CacheClasses == {"PinsCache", "PinsRscCache", "PinsAccessTimeCache"}

\* board(): lines 128-135, the backend filesystem for the protocol
make_fs(protocol, storage_options) ==
    IF protocol = "rsc"
    THEN [cls |-> "RsConnectFs", protocol |-> "rsc",
          storage_options |-> storage_options]
    ELSE [cls |-> "fsspec", protocol |-> protocol,
          storage_options |-> storage_options]

is_cache(fs) == fs.cls \in CacheClasses

\* the filesystem a cache wraps (the filesystem itself when there is no cache)
backend(fs) == IF is_cache(fs) THEN fs.fs ELSE fs

\* fs.protocol: a cache answers with the protocol of the filesystem it wraps
fs_protocol(fs) == backend(fs).protocol

\* fs.api.server_url of an RsConnectFs
api_server_url(fs) == Get(backend(fs).storage_options, "server_url")

\* ----------------------------------------------------------------- boards

NoBoard == [cls |-> "None"]

NoCall == [fn |-> "None", cache |-> "None", exc |-> "None"]

NoResult == [exc |-> "unset", value |-> ""]

\* BaseBoard / BoardRsConnect / BoardManual (path, fs, versioned, ...)
new_board(cls, path, fs, versioned, allow_pickle_read, pin_paths) ==
    [cls |-> cls, board |-> path, fs |-> fs, versioned |-> versioned,
     allow_pickle_read |-> allow_pickle_read, pin_paths |-> pin_paths,
     tmp_dir |-> "None"]

\* mutant: the rsc identity falls back to the path argument when one is given
path_hash_prefix(path, storage_options) ==
    IF path # "None" THEN path ELSE Get(storage_options, "server_url")

\* board(), line 145: each server_url is its own cache directory
rsc_hash_prefix(path, storage_options) == Get(storage_options, "server_url")

\* mutant: every board caches straight into the cache root
cache_dir_root(fs, hash_prefix) == get_cache_dir

\* board(), lines 146-147 and 154-155
cache_dir(fs, hash_prefix) ==
    os_path_join(get_cache_dir, prefix_cache(fs_protocol(fs), hash_prefix))

\* mutant: path-addressed backends get the access-time cache
wrap_cache_access_time(protocol, path, cache, storage_options, fs) ==
    IF cache = "DEFAULT" THEN
        IF protocol = "rsc" THEN
            LET hash_prefix == rsc_hash_prefix(path, storage_options) IN
            [exc |-> "None",
             fs |-> [cls |-> "PinsRscCache", cache_storage |-> cache_dir(fs, hash_prefix),
                     fs |-> fs, hash_prefix |-> hash_prefix, same_names |-> TRUE]]
        ELSE
            [exc |-> "None",
             fs |-> [cls |-> "PinsAccessTimeCache", cache_storage |-> cache_dir(fs, path),
                     fs |-> fs, hash_prefix |-> path, same_names |-> TRUE]]
    ELSE IF cache = "None" THEN [exc |-> "None", fs |-> fs]
    ELSE [exc |-> "TypeError", fs |-> fs]

\* mutant: None is treated like DEFAULT
wrap_cache_none_as_default(protocol, path, cache, storage_options, fs) ==
    IF cache \in {"DEFAULT", "None"} THEN
        IF protocol = "rsc" THEN
            LET hash_prefix == rsc_hash_prefix(path, storage_options) IN
            [exc |-> "None",
             fs |-> [cls |-> "PinsRscCache", cache_storage |-> cache_dir(fs, hash_prefix),
                     fs |-> fs, hash_prefix |-> hash_prefix, same_names |-> TRUE]]
        ELSE
            [exc |-> "None",
             fs |-> [cls |-> "PinsCache", cache_storage |-> cache_dir(fs, path),
                     fs |-> fs, hash_prefix |-> path, same_names |-> TRUE]]
    ELSE [exc |-> "TypeError", fs |-> fs]

\* board(), lines 139-163: wrap fs in cache.  Line 163 calls the constant
\* NotImplemented, which is not callable: Python raises TypeError there.
wrap_cache(protocol, path, cache, storage_options, fs) ==
    IF cache = "DEFAULT" THEN
        IF protocol = "rsc" THEN
            LET hash_prefix == rsc_hash_prefix(path, storage_options) IN
            [exc |-> "None",
             fs |-> [cls |-> "PinsRscCache", cache_storage |-> cache_dir(fs, hash_prefix),
                     fs |-> fs, hash_prefix |-> hash_prefix, same_names |-> TRUE]]
        ELSE
            [exc |-> "None",
             fs |-> [cls |-> "PinsCache", cache_storage |-> cache_dir(fs, path),
                     fs |-> fs, hash_prefix |-> path, same_names |-> TRUE]]
    ELSE IF cache = "None" THEN [exc |-> "None", fs |-> fs]
    ELSE [exc |-> "TypeError", fs |-> fs]

\* board(), lines 72-175
board(protocol, path, versioned, cache, allow_pickle_read, storage_options, board_factory) ==
    LET fs == make_fs(protocol, storage_options)
        w == wrap_cache(protocol, path, cache, storage_options, fs)
        cls == IF board_factory # "None" THEN board_factory
               ELSE IF protocol = "rsc" THEN "BoardRsConnect"
               ELSE "BaseBoard"
    IN  IF w.exc # "None" THEN [exc |-> w.exc, board |-> NoBoard]
        ELSE [exc |-> "None",
              board |-> new_board(cls, path, w.fs, versioned, allow_pickle_read, {})]

\* board_folder(), lines 181-194
board_folder(path, versioned, allow_pickle_read) ==
    board("file", path, versioned, "None", allow_pickle_read, EmptyOpts, "None")

\* mutant: the reference to the TemporaryDirectory is not kept on the board
board_temp_no_ref(tmp_dir, versioned, allow_pickle_read) ==
    board("file", tmp_dir, versioned, "None", allow_pickle_read, EmptyOpts, "None")

\* board_temp(), lines 197-217; tmp_dir is the name of the directory that
\* tempfile.TemporaryDirectory() created
board_temp(tmp_dir, versioned, allow_pickle_read) ==
    LET r == board("file", tmp_dir, versioned, "None", allow_pickle_read, EmptyOpts, "None")
    IN  [r EXCEPT !.board.tmp_dir = tmp_dir]

\* board_local(), lines 220-232
board_local(versioned, allow_pickle_read) ==
    board("file", get_data_dir, versioned, "None", allow_pickle_read, EmptyOpts, "None")

\* board_github(), lines 235-289; token is accepted and not used
board_github(org, repo, path, token, versioned, cache, allow_pickle_read) ==
    board("github", path, versioned, cache, allow_pickle_read,
          {<<"org", org>>, <<"repo", repo>>, <<"listings_expiry_time", "0">>}, "None")

\* board_url(), lines 303-347
board_url(path, pin_paths, cache, allow_pickle_read) ==
    IF cache = "DEFAULT" THEN
        LET sub_cache == get_cache_dir \o "/" \o prefix_cache("http", path)
            fs == [cls |-> "PinsAccessTimeCache", cache_storage |-> sub_cache,
                   fs |-> make_fs("http", EmptyOpts), hash_prefix |-> "None",
                   same_names |-> FALSE]
        IN  [exc |-> "None",
             board |-> new_board("BoardManual", path, fs, TRUE, allow_pickle_read, pin_paths)]
    ELSE [exc |-> "NotImplementedError", board |-> NoBoard]

\* board_urls(), lines 292-300: deprecated alias of board_url
board_urls(path, pin_paths, cache, allow_pickle_read) ==
    board_url(path, pin_paths, cache, allow_pickle_read)

\* board_rsconnect(), lines 350-400; connect_server is os.environ["CONNECT_SERVER"]
board_rsconnect(server_url, versioned, api_key, cache, allow_pickle_read, connect_server) ==
    LET url == IF server_url = "None" THEN connect_server ELSE server_url
    IN  board("rsc", "None", versioned, cache, allow_pickle_read,
              {<<"server_url", url>>, <<"api_key", api_key>>}, "None")

\* mutant: the listing cache option is left out
board_s3_no_opts(path, versioned, cache, allow_pickle_read) ==
    board("s3", path, versioned, cache, allow_pickle_read, EmptyOpts, "None")

\* board_s3(), lines 403-425
board_s3(path, versioned, cache, allow_pickle_read) ==
    board("s3", path, versioned, cache, allow_pickle_read,
          {<<"listings_expiry_time", "0">>}, "None")

\* board_gcs(), lines 428-450
board_gcs(path, versioned, cache, allow_pickle_read) ==
    board("gcs", path, versioned, cache, allow_pickle_read,
          {<<"cache_timeout", "0">>}, "None")

\* board_azure(), lines 453-475
board_azure(path, versioned, cache, allow_pickle_read) ==
    board("abfs", path, versioned, cache, allow_pickle_read,
          {<<"use_listings_cache", "False">>}, "None")

\* repr() of a Python value: a str is quoted, None and bools are not
repr(v) == IF v \in {"None", "True", "False"} THEN v ELSE "'" \o v \o "'"

\* mutant: the deparsed call carries every storage option, the api_key too
board_deparse_with_key(b) ==
    LET allow_pickle == IF b.allow_pickle_read # "None"
                        THEN ", allow_pickle_read=" \o repr(b.allow_pickle_read)
                        ELSE ""
        prot == fs_protocol(b.fs)
    IN  IF prot = "rsc" THEN
            [exc |-> "None",
             value |-> "board_rsconnect(server_url=" \o repr(api_server_url(b.fs))
                       \o ", api_key=" \o repr(Get(backend(b.fs).storage_options, "api_key"))
                       \o allow_pickle \o ")"]
        ELSE IF prot = "file" THEN
            [exc |-> "None",
             value |-> "board_folder(" \o repr(b.board) \o allow_pickle \o ")"]
        ELSE [exc |-> "NotImplementedError", value |-> ""]

\* board_deparse(), lines 17-64
board_deparse(b) ==
    LET allow_pickle == IF b.allow_pickle_read # "None"
                        THEN ", allow_pickle_read=" \o repr(b.allow_pickle_read)
                        ELSE ""
        prot == fs_protocol(b.fs)
    IN  IF prot = "rsc" THEN
            [exc |-> "None",
             value |-> "board_rsconnect(server_url=" \o repr(api_server_url(b.fs))
                       \o allow_pickle \o ")"]
        ELSE IF prot = "file" THEN
            [exc |-> "None",
             value |-> "board_folder(" \o repr(b.board) \o allow_pickle \o ")"]
        ELSE [exc |-> "NotImplementedError", value |-> ""]

\* ---------------------------------------------------------------- actions

BoardFactories == {"None", "BaseBoard"}

GenericOptions(protocol) == IF protocol = "rsc" THEN RscOptions ELSE {EmptyOpts}

Idle(c) == obj[c] = NoBoard /\ call[c] = NoCall

\* caller c receives the outcome r of constructor fn called with cache
Returned(c, fn, cache, r) ==
    /\ obj' = [obj EXCEPT ![c] = r.board]
    /\ call' = [call EXCEPT ![c] = [fn |-> fn, cache |-> cache, exc |-> r.exc]]

Board(c) ==
    /\ Idle(c)
    /\ \E protocol \in Protocols, path \in Paths, versioned \in BOOLEAN,
          cache \in CacheArgs, allow_pickle_read \in AllowPickleRead,
          board_factory \in BoardFactories :
         \E storage_options \in GenericOptions(protocol) :
            Returned(c, "board", cache,
                     board(protocol, path, versioned, cache, allow_pickle_read,
                           storage_options, board_factory))
    /\ UNCHANGED <<deparsed, handles, fs_dirs, adaptor_vars>>

BoardFolder(c) ==
    /\ Idle(c)
    /\ \E path \in Paths, versioned \in BOOLEAN, allow_pickle_read \in AllowPickleRead :
         Returned(c, "board_folder", "None", board_folder(path, versioned, allow_pickle_read))
    /\ UNCHANGED <<deparsed, handles, fs_dirs, adaptor_vars>>

\* tempfile.TemporaryDirectory() makes a directory that did not exist
BoardTemp(c) ==
    /\ Idle(c)
    /\ \E tmp_dir \in TmpNames \ fs_dirs, versioned \in BOOLEAN,
          allow_pickle_read \in AllowPickleRead :
         /\ Returned(c, "board_temp", "None", board_temp(tmp_dir, versioned, allow_pickle_read))
         /\ handles' = handles \cup {tmp_dir}
         /\ fs_dirs' = fs_dirs \cup {tmp_dir}
    /\ UNCHANGED <<deparsed, adaptor_vars>>

BoardLocal(c) ==
    /\ Idle(c)
    /\ \E versioned \in BOOLEAN, allow_pickle_read \in AllowPickleRead :
         Returned(c, "board_local", "None", board_local(versioned, allow_pickle_read))
    /\ UNCHANGED <<deparsed, handles, fs_dirs, adaptor_vars>>

BoardGithub(c) ==
    /\ Idle(c)
    /\ \E org \in {"machow"}, repo \in {"pins-python"}, path \in Paths,
          token \in {"None", "ghp_token"}, versioned \in BOOLEAN,
          cache \in CacheArgs, allow_pickle_read \in AllowPickleRead :
         Returned(c, "board_github", cache,
                  board_github(org, repo, path, token, versioned, cache, allow_pickle_read))
    /\ UNCHANGED <<deparsed, handles, fs_dirs, adaptor_vars>>

BoardUrl(c) ==
    /\ Idle(c)
    /\ \E path \in Paths, cache \in CacheArgs, allow_pickle_read \in AllowPickleRead :
         Returned(c, "board_url", cache, board_url(path, PinPaths, cache, allow_pickle_read))
    /\ UNCHANGED <<deparsed, handles, fs_dirs, adaptor_vars>>

BoardUrls(c) ==
    /\ Idle(c)
    /\ \E path \in Paths, cache \in CacheArgs, allow_pickle_read \in AllowPickleRead :
         Returned(c, "board_urls", cache, board_urls(path, PinPaths, cache, allow_pickle_read))
    /\ UNCHANGED <<deparsed, handles, fs_dirs, adaptor_vars>>

BoardRsconnect(c) ==
    /\ Idle(c)
    /\ \E server_url \in Urls \cup {"None"}, versioned \in BOOLEAN, api_key \in ApiKeys,
          cache \in CacheArgs, allow_pickle_read \in AllowPickleRead,
          connect_server \in Urls :
         Returned(c, "board_rsconnect", cache,
                  board_rsconnect(server_url, versioned, api_key, cache,
                                  allow_pickle_read, connect_server))
    /\ UNCHANGED <<deparsed, handles, fs_dirs, adaptor_vars>>

BoardS3(c) ==
    /\ Idle(c)
    /\ \E path \in Paths, versioned \in BOOLEAN, cache \in CacheArgs,
          allow_pickle_read \in AllowPickleRead :
         Returned(c, "board_s3", cache, board_s3(path, versioned, cache, allow_pickle_read))
    /\ UNCHANGED <<deparsed, handles, fs_dirs, adaptor_vars>>

BoardGcs(c) ==
    /\ Idle(c)
    /\ \E path \in Paths, versioned \in BOOLEAN, cache \in CacheArgs,
          allow_pickle_read \in AllowPickleRead :
         Returned(c, "board_gcs", cache, board_gcs(path, versioned, cache, allow_pickle_read))
    /\ UNCHANGED <<deparsed, handles, fs_dirs, adaptor_vars>>

BoardAzure(c) ==
    /\ Idle(c)
    /\ \E path \in Paths, versioned \in BOOLEAN, cache \in CacheArgs,
          allow_pickle_read \in AllowPickleRead :
         Returned(c, "board_azure", cache, board_azure(path, versioned, cache, allow_pickle_read))
    /\ UNCHANGED <<deparsed, handles, fs_dirs, adaptor_vars>>

BoardDeparse(c) ==
    /\ obj[c] # NoBoard
    /\ deparsed[c] = NoResult
    /\ deparsed' = [deparsed EXCEPT ![c] = board_deparse(obj[c])]
    /\ UNCHANGED <<obj, call, handles, fs_dirs, adaptor_vars>>

\* the caller drops its board (or the exception it caught)
Dispose(c) ==
    /\ call[c] # NoCall
    /\ obj' = [obj EXCEPT ![c] = NoBoard]
    /\ call' = [call EXCEPT ![c] = NoCall]
    /\ deparsed' = [deparsed EXCEPT ![c] = NoResult]
    /\ UNCHANGED <<handles, fs_dirs, adaptor_vars>>

\* a TemporaryDirectory object is reachable while a held board refers to it
Reachable(h) == \E c \in Callers : obj[c] # NoBoard /\ obj[c].tmp_dir = h

\* the garbage collector runs the finalizer of an unreachable
\* TemporaryDirectory, which removes the directory
Finalize(h) ==
    /\ h \in handles
    /\ ~Reachable(h)
    /\ handles' = handles \ {h}
    /\ fs_dirs' = fs_dirs \ {h}
    /\ UNCHANGED <<obj, call, deparsed, adaptor_vars>>

\* TemporaryDirectory.cleanup() called through the board's reference
Cleanup(c) ==
    /\ obj[c] # NoBoard
    /\ obj[c].tmp_dir \in handles
    /\ handles' = handles \ {obj[c].tmp_dir}
    /\ fs_dirs' = fs_dirs \ {obj[c].tmp_dir}
    /\ UNCHANGED <<obj, call, deparsed, adaptor_vars>>

\* --------------------------------------------------------------- adaptors

Formats == {"json", "joblib", "csv", "parquet", "feather"}

\* formats that need rows and columns
TabularFormats == {"csv", "parquet", "feather"}

OpaquePayloads ==
    {[type |-> "int", value |-> "42", columns |-> <<>>, rows |-> 0],
     [type |-> "dict", value |-> "{'a': 1, 'b': 2}", columns |-> <<>>, rows |-> 0]}

FramePayloads ==
    {[type |-> "DataFrame", value |-> "{'a': [1, 2, 3], 'b': [4, 5, 6]}",
      columns |-> <<"a", "b">>, rows |-> 3],
     [type |-> "DataFrame", value |-> "{'a': [1], 'b': [4]}",
      columns |-> <<"a", "b">>, rows |-> 1]}

Payloads == OpaquePayloads \cup FramePayloads

NoAdaptor == [cls |-> "None"]

\* isinstance(obj, _AbstractPandasFrame)
is_pandas_frame(payload) == payload.type = "DataFrame"

\* _create_adaptor(obj): the payload is classified when it is wrapped
create_adaptor(payload) ==
    IF is_pandas_frame(payload)
    THEN [cls |-> "_PandasAdaptor", d |-> payload]
    ELSE [cls |-> "_Adaptor", d |-> payload]

\* isinstance(adaptor, _DFAdaptor)
is_df_adaptor(a) == a.cls = "_PandasAdaptor"

\* mutant: the plain adaptor pickles whatever it is asked to write
write_any(a, format) == [exc |-> "None", written |-> TRUE]

\* adaptor.write_<format>(file)
write(a, format) ==
    IF format \in TabularFormats /\ ~is_df_adaptor(a)
    THEN [exc |-> "NotImplementedError", written |-> FALSE]
    ELSE [exc |-> "None", written |-> TRUE]

\* the preview as a dict: a row sample and the column descriptors
preview_dict(a) ==
    IF is_df_adaptor(a)
    THEN {<<"data", "head(" \o a.d.value \o ")">>,
          <<"columns", "[name, label, align, type]*" \o ToString(Len(a.d.columns))>>}
    ELSE {}

\* json.dumps of the preview dict
json_dumps(dict) ==
    IF dict = {} THEN "{}"
    ELSE "{\"data\": " \o Get(dict, "data") \o ", \"columns\": " \o Get(dict, "columns") \o "}"

\* mutant: the plain adaptor previews the value it wraps
data_preview_of_value(a) ==
    LET dict == IF is_df_adaptor(a) THEN preview_dict(a)
                ELSE {<<"data", a.d.value>>, <<"columns", "[]">>}
    IN  [text |-> json_dumps(dict), keys |-> {p[1] : p \in dict}]

\* adaptor.data_preview
data_preview(a) ==
    LET dict == preview_dict(a)
    IN  [text |-> json_dumps(dict), keys |-> {p[1] : p \in dict}]

NoWrite == [format |-> "None", exc |-> "unset"]

NoPreview == [text |-> "unset", keys |-> {}]

CreateAdaptor ==
    /\ \E payload \in Payloads : adaptor' = create_adaptor(payload)
    /\ write_exc' = NoWrite
    /\ preview' = NoPreview
    /\ UNCHANGED <<files, board_vars>>

Write(format) ==
    /\ adaptor # NoAdaptor
    /\ LET r == write(adaptor, format)
       IN  /\ write_exc' = [format |-> format, exc |-> r.exc]
           /\ files' = IF r.written THEN [files EXCEPT ![format] = adaptor.d.value]
                       ELSE files
    /\ UNCHANGED <<adaptor, preview, board_vars>>

DataPreview ==
    /\ adaptor # NoAdaptor
    /\ preview' = data_preview(adaptor)
    /\ UNCHANGED <<adaptor, files, write_exc, board_vars>>

\* ---------------------------------------------------------- specifications

Init ==
    /\ obj = [c \in Callers |-> NoBoard]
    /\ call = [c \in Callers |-> NoCall]
    /\ deparsed = [c \in Callers |-> NoResult]
    /\ handles = {}
    /\ fs_dirs = {}
    /\ adaptor = NoAdaptor
    /\ files = [f \in Formats |-> "absent"]
    /\ write_exc = NoWrite
    /\ preview = NoPreview

\* the constructors of boards on permanent storage, and board_deparse
Next ==
    \/ \E c \in Callers : Board(c)
    \/ \E c \in Callers : BoardFolder(c)
    \/ \E c \in Callers : BoardLocal(c)
    \/ \E c \in Callers : BoardGithub(c)
    \/ \E c \in Callers : BoardUrl(c)
    \/ \E c \in Callers : BoardUrls(c)
    \/ \E c \in Callers : BoardRsconnect(c)
    \/ \E c \in Callers : BoardS3(c)
    \/ \E c \in Callers : BoardGcs(c)
    \/ \E c \in Callers : BoardAzure(c)
    \/ \E c \in Callers : BoardDeparse(c)
    \/ \E c \in Callers : Dispose(c)

Spec == Init /\ [][Next]_vars

\* the boards on the local file system and the life of a temporary directory
LocalNext ==
    \/ \E c \in Callers : Board(c)
    \/ \E c \in Callers : BoardFolder(c)
    \/ \E c \in Callers : BoardTemp(c)
    \/ \E c \in Callers : BoardLocal(c)
    \/ \E c \in Callers : Dispose(c)
    \/ \E c \in Callers : Cleanup(c)
    \/ \E h \in TmpNames : Finalize(h)

LocalSpec == Init /\ [][LocalNext]_vars

\* wrapping payloads and writing them
AdaptorNext ==
    \/ CreateAdaptor
    \/ \E format \in Formats : Write(format)
    \/ DataPreview

AdaptorSpec == Init /\ [][AdaptorNext]_vars

\* ----------------------------------------------------------------- claims

Held(c) == obj[c] # NoBoard

\* every constructor but board_url / board_urls builds its board with board()
ViaBoard(c) == Held(c) /\ call[c].fn \notin {"board_url", "board_urls"}

DefaultCache(c) == ViaBoard(c) /\ call[c].cache = "DEFAULT"

PinNames == {"df_csv", "df_arrow"}

\* <cache_storage>/<pin>: where a cache keeps its copy of a pin
cache_path(fs, pin) == os_path_join(fs.cache_storage, pin)

SamePathProtocol(c1, c2) ==
    /\ DefaultCache(c1) /\ DefaultCache(c2)
    /\ fs_protocol(obj[c1].fs) # "rsc"
    /\ fs_protocol(obj[c1].fs) = fs_protocol(obj[c2].fs)

\* C1: two boards built by board() with the default cache and the same non-rsc
\* protocol (and cache root) whose paths differ have different cache storage
\* directories, each cache_root joined with prefix_cache(fs, path), so the
\* cached copy of a pin of one is never the cached copy of the same-named pin
\* of the other.
C1_NamespaceIsolation ==
    \A c1, c2 \in Callers :
        (SamePathProtocol(c1, c2) /\ obj[c1].board # obj[c2].board)
        => /\ obj[c1].fs.cache_storage =
                os_path_join(get_cache_dir,
                             prefix_cache(fs_protocol(obj[c1].fs), obj[c1].board))
           /\ obj[c1].fs.cache_storage # obj[c2].fs.cache_storage
           /\ \A pin \in PinNames :
                cache_path(obj[c1].fs, pin) # cache_path(obj[c2].fs, pin)

C1_Witness ==
    \E c1, c2 \in Callers :
        /\ SamePathProtocol(c1, c2)
        /\ obj[c1].board # obj[c2].board
        /\ call[c1].fn = "board" /\ call[c2].fn = "board"

RscDefault(c) == DefaultCache(c) /\ fs_protocol(obj[c].fs) = "rsc"

\* C2: an rsc board with the default cache takes its cache directory and its
\* hash_prefix from storage_options["server_url"] alone: same server_url, same
\* directory whatever the path argument; different server_url, different
\* directory.
C2_RscCachePerServer ==
    \A c1, c2 \in Callers :
        (RscDefault(c1) /\ RscDefault(c2))
        => /\ obj[c1].fs.hash_prefix = api_server_url(obj[c1].fs)
           /\ obj[c1].fs.cache_storage =
                os_path_join(get_cache_dir, prefix_cache("rsc", api_server_url(obj[c1].fs)))
           /\ (api_server_url(obj[c1].fs) = api_server_url(obj[c2].fs)
                 <=> obj[c1].fs.cache_storage = obj[c2].fs.cache_storage)

C2_Witness ==
    \E c1, c2 \in Callers :
        /\ RscDefault(c1) /\ RscDefault(c2)
        /\ api_server_url(obj[c1].fs) = api_server_url(obj[c2].fs)
        /\ obj[c1].board # obj[c2].board
        /\ obj[c1].fs.cache_storage = obj[c2].fs.cache_storage

\* C3: only board_url and board_urls attach a PinsAccessTimeCache; with the
\* default cache board() attaches PinsRscCache for rsc and PinsCache for every
\* other protocol.
C3_AccessTimeCacheOnlyForUrl ==
    \A c \in Callers :
        Held(c) =>
            /\ obj[c].fs.cls = "PinsAccessTimeCache"
                 => call[c].fn \in {"board_url", "board_urls"}
            /\ DefaultCache(c)
                 => obj[c].fs.cls = IF fs_protocol(obj[c].fs) = "rsc"
                                    THEN "PinsRscCache" ELSE "PinsCache"

C3_Witness ==
    \E c1, c2 \in Callers :
        /\ Held(c1) /\ call[c1].fn = "board_url"
        /\ obj[c1].fs.cls = "PinsAccessTimeCache"
        /\ DefaultCache(c2) /\ obj[c2].fs.cls = "PinsCache"

ListingOption(fn) ==
    CASE fn = "board_github" -> <<"listings_expiry_time", "0">>
      [] fn = "board_s3" -> <<"listings_expiry_time", "0">>
      [] fn = "board_gcs" -> <<"cache_timeout", "0">>
      [] fn = "board_azure" -> <<"use_listings_cache", "False">>

RemoteConstructors == {"board_github", "board_s3", "board_gcs", "board_azure"}

\* C4: the backend filesystem of every board built by board_github, board_s3,
\* board_gcs or board_azure was given the option that turns its listing cache
\* off, whatever arguments the caller passed.
C4_ListingCacheDisabled ==
    \A c \in Callers :
        (Held(c) /\ call[c].fn \in RemoteConstructors)
        => ListingOption(call[c].fn) \in backend(obj[c].fs).storage_options

C4_Witness ==
    \E c1, c2 \in Callers :
        /\ Held(c1) /\ call[c1].fn = "board_s3" /\ call[c1].cache = "DEFAULT"
        /\ Held(c2) /\ call[c2].fn = "board_gcs" /\ call[c2].cache = "None"

\* C5: a constructor called with the caller's own cache object raises
\* NotImplementedError and returns no board.
C5_OwnCacheRaisesNotImplementedError ==
    \A c \in Callers :
        call[c].cache = "custom"
        => call[c].exc = "NotImplementedError" /\ obj[c] = NoBoard

LocalConstructors == {"board_folder", "board_temp", "board_local"}

\* C6: board() called with cache None hands the board the backend filesystem
\* itself, with no cache around it; board_folder, board_temp and board_local
\* always do so, for every versioned and allow_pickle_read.
C6_NoCacheWhenNone ==
    \A c \in Callers :
        Held(c) =>
            /\ (ViaBoard(c) /\ call[c].cache = "None")
                 => /\ ~is_cache(obj[c].fs)
                    /\ obj[c].fs = make_fs(obj[c].fs.protocol, obj[c].fs.storage_options)
            /\ call[c].fn \in LocalConstructors
                 => obj[c].fs = make_fs("file", EmptyOpts)

C6_Witness ==
    \E c1, c2 \in Callers :
        /\ Held(c1) /\ call[c1].fn = "board_temp" /\ ~obj[c1].versioned
        /\ Held(c2) /\ call[c2].fn = "board" /\ call[c2].cache = "None"
        /\ obj[c2].allow_pickle_read = "True"

without_api_key(storage_options) == {p \in storage_options : p[1] # "api_key"}

\* the board with the api_key taken out of its filesystem's options
WithoutKey(b) ==
    IF is_cache(b.fs)
    THEN [b EXCEPT !.fs.fs.storage_options = without_api_key(@)]
    ELSE [b EXCEPT !.fs.storage_options = without_api_key(@)]

Deparsed(c) == Held(c) /\ deparsed[c] # NoResult

RscForm(url) ==
    {"board_rsconnect(server_url=" \o repr(url) \o allow_pickle \o ")" :
        allow_pickle \in {"", ", allow_pickle_read=True", ", allow_pickle_read=False"}}

\* C7: board_deparse of an rsc board returns
\* board_rsconnect(server_url=<repr of the url>[, allow_pickle_read=...]) and
\* nothing else, and returns the same string for two rsc boards that differ
\* only in api_key.
C7_DeparseDropsApiKey ==
    /\ \A c \in Callers :
         (Deparsed(c) /\ fs_protocol(obj[c].fs) = "rsc")
         => /\ deparsed[c].exc = "None"
            /\ deparsed[c].value \in RscForm(api_server_url(obj[c].fs))
    /\ \A c1, c2 \in Callers :
         (/\ Deparsed(c1) /\ Deparsed(c2)
          /\ fs_protocol(obj[c1].fs) = "rsc" /\ fs_protocol(obj[c2].fs) = "rsc"
          /\ WithoutKey(obj[c1]) = WithoutKey(obj[c2]))
         => deparsed[c1] = deparsed[c2]

C7_Witness ==
    \E c1, c2 \in Callers :
        /\ Deparsed(c1) /\ Deparsed(c2)
        /\ fs_protocol(obj[c1].fs) = "rsc" /\ fs_protocol(obj[c2].fs) = "rsc"
        /\ obj[c1] # obj[c2]
        /\ WithoutKey(obj[c1]) = WithoutKey(obj[c2])
        /\ obj[c1].allow_pickle_read = "True"

Wrote == write_exc # NoWrite

\* C8: what an adaptor can write is fixed by how its payload was classified:
\* for a non-DataFrame payload write_csv, write_parquet and write_feather raise
\* NotImplementedError and write nothing, write_json and write_joblib succeed;
\* for a DataFrame all five succeed.
C8_FormatsByClassification ==
    /\ Wrote =>
         /\ write_exc.exc =
              IF write_exc.format \in TabularFormats /\ ~is_pandas_frame(adaptor.d)
              THEN "NotImplementedError" ELSE "None"
         /\ write_exc.exc = "None" => files[write_exc.format] = adaptor.d.value
    /\ \A format \in TabularFormats :
         files[format] \in {"absent"} \cup {p.value : p \in FramePayloads}

C8_Witness ==
    /\ Wrote
    /\ ~is_pandas_frame(adaptor.d)
    /\ write_exc = [format |-> "csv", exc |-> "NotImplementedError"]
    /\ files["json"] = adaptor.d.value
    /\ files["feather"] # "absent"

Previewed == preview # NoPreview

\* C9: the preview of every non-DataFrame payload is "{}"; only a DataFrame
\* payload gives a preview with "data" and "columns" entries.
C9_OpaquePreviewIsEmpty ==
    Previewed =>
        /\ ~is_pandas_frame(adaptor.d) => preview.text = "{}" /\ preview.keys = {}
        /\ preview.keys # {} =>
             is_pandas_frame(adaptor.d) /\ preview.keys = {"data", "columns"}
        /\ is_pandas_frame(adaptor.d) => preview.text # "{}"

C9_Witness ==
    /\ Previewed
    /\ adaptor.d.type = "dict"
    /\ preview.text = "{}"

TempBoard(c) == Held(c) /\ call[c].fn = "board_temp"

Deleted == fs_dirs \ fs_dirs'

\* C10 as stated: the directory of a board_temp board is created with the
\* board and is deleted only in the step of an explicit close or of the
\* board's disposal, never by the finalizer of the directory handle.
C10_DeletedOnlyExplicitly ==
    [][/\ \A c \in Callers :
            (~TempBoard(c) /\ TempBoard(c)') => obj'[c].board \in fs_dirs' \ fs_dirs
       /\ Deleted # {} => \E c \in Callers : Cleanup(c) \/ Dispose(c)]_vars

\* C10 amended: the directory is created with the board; while a caller
\* holds the board the directory is deleted only by an explicit cleanup() of
\* its TemporaryDirectory; otherwise it is deleted by the finalizer the garbage
\* collector runs once no held board refers to the TemporaryDirectory.
C10_DeletedByCleanupOrFinalizer ==
    [][/\ \A c \in Callers :
            (~TempBoard(c) /\ TempBoard(c)') => obj'[c].board \in fs_dirs' \ fs_dirs
       /\ \A d \in Deleted :
            \/ \E c \in Callers : Cleanup(c) /\ obj[c].board = d
            \/ /\ Finalize(d)
               /\ \A c \in Callers : Held(c) => obj[c].board # d]_vars

C10_Witness ==
    \E c \in Callers :
        /\ TempBoard(c)
        /\ obj[c].board \in fs_dirs
        /\ \E h \in handles : ~Reachable(h) /\ h \in fs_dirs

====
